---------------------------- MODULE Spec2Model ----------------------------
(***************************************************************************)
(* A model of the text-to-tensor pipeline of bert-span-classifier          *)
(* (src/common.py, src/test.py): the span encoders encode_tokenized and    *)
(* encode_tokenized_re, the TSV record reader parse_tsv_line, the label    *)
(* list loader load_labels, and the file readers load_tsv_data,            *)
(* tsv_generator, load_batch_offsets / load_batch_from_tsv / TsvSequence.  *)
(*                                                                         *)
(* Python lists are sequences (index i of Python is index i+1 here).       *)
(* Strings and byte strings are sequences of one-character strings.        *)
(* A token is a pair <<kind, n>>: the special tokens are <<"[CLS]",0>>,    *)
(* <<"[SEP]",0>>, <<"[PAD]",0>>, and the n-th token of an input segment is *)
(* <<segment name, n>>, so that every input token can be told apart.       *)
(***************************************************************************)
EXTENDS Integers, Sequences, FiniteSets, TLC

VARIABLES
    options,        \* the argparse namespace: task_name, max_seq_length, replace_span*, label_field, text_fields
    texts,          \* encoders: the tokenized example, a sequence of 3 or 5 token lists
    head,           \* encoders: the local left / sent_start_tok after the centering step
    tokens,         \* encoders: the local tokens at the end of the loop body
    tids,           \* encoders: token ids of the example (tids[0] of the source)
    sids,           \* encoders: segment ids of the example (sids[0] of the source)
    pc,             \* the position of the program in the specification at hand
    l,              \* parse_tsv_line: the line handed to it
    parsed,         \* parse_tsv_line: its outcome
    label_lines,    \* load_labels: the raw lines of the label file
    labels,         \* load_labels: the list it returns
    label_map,      \* test.py: label -> id
    inv_label_map,  \* test.py: id -> label
    file,           \* the bytes of the TSV file
    batch_size,     \* TsvSequence._batch_size
    seq,            \* the TsvSequence object: _batch_offsets, num_examples
    call,           \* the last read of the file: which reader, which batch, and its outcome
    workers,        \* concurrent __getitem__ calls: each worker's position and the locals of its call
    cursor,         \* the position of each open file handle
    tokenized_before,   \* fix_unused_tokens: the token lists handed to it, one per segment
    tokenized       \* tokenize_texts_re: the five token lists it appends

vars == <<options, texts, head, tokens, tids, sids, pc, l, parsed,
          label_lines, labels, label_map, inv_label_map,
          file, batch_size, seq, call, workers, cursor, tokenized_before, tokenized>>

encVars == <<texts, head, tokens, tids, sids>>
parseVars == <<l, parsed>>
labelVars == <<label_lines, labels, label_map, inv_label_map>>
tsvVars == <<file, batch_size, seq, call>>
concVars == <<workers, cursor>>
fixVars == <<tokenized_before, tokenized>>

-----------------------------------------------------------------------------
(* Bounds of the model *)

MaxSeqLen == 16
MaxCtx == 4
MaxEnt == 2
MaxBetween == 6

-----------------------------------------------------------------------------
(* Python built-ins used by the source *)

Min(a, b) == IF a < b THEN a ELSE b

Max(a, b) == IF a > b THEN a ELSE b

\* A slice bound i of a list of length n: negative counts from the end, then clamped to [0, n].
SliceIndex(i, n) == IF i < 0 THEN Max(i + n, 0) ELSE Min(i, n)

\* s[a:b]
PySlice(s, a, b) ==
    LET lo == SliceIndex(a, Len(s))
        hi == SliceIndex(b, Len(s))
    IN  IF lo >= hi THEN <<>> ELSE SubSeq(s, lo + 1, hi)

\* s[a:]
PyFrom(s, a) == PySlice(s, a, Len(s))

\* s[:b]
PyTo(s, b) == PySlice(s, 0, b)

\* s[i] for an index in range: a negative index counts from the end
PyIndex(s, i) == s[(IF i < 0 THEN Len(s) + i ELSE i) + 1]

\* [x] * n : the empty list when n <= 0
Repeat(x, n) == [i \in 1..n |-> x]

\* int(round(n/2)) for an integer n >= 0: Python 3 rounds a half to the even neighbour
RoundHalf(n) ==
    IF n % 2 = 0 THEN n \div 2
    ELSE IF (n \div 2) % 2 = 0 THEN n \div 2 ELSE (n \div 2) + 1

\* int(seq_len/2) for seq_len >= 0
Center(seq_len) == seq_len \div 2

None == <<"None", 0>>

-----------------------------------------------------------------------------
(* Tokens *)

CLS == <<"[CLS]", 0>>

SEP == <<"[SEP]", 0>>

PAD == <<"[PAD]", 0>>

UnusedA == <<"[unused1]", 0>>

UnusedB == <<"[unused2]", 0>>

\* The token list of one input segment: n tokens, all different
Segment(kind, n) == [i \in 1..n |-> <<kind, i>>]

\* The vocabulary of the external tokenizer: an injective map from tokens to ids
VocabId(tok) ==
    CASE tok[1] = "[PAD]" -> 0
      [] tok[1] = "[CLS]" -> 101
      [] tok[1] = "[SEP]" -> 102
      [] tok[1] = "[unused1]" -> 2
      [] tok[1] = "[unused2]" -> 3
      [] tok[1] = "left" -> 1000 + tok[2]
      [] tok[1] = "span" -> 1100 + tok[2]
      [] tok[1] = "right" -> 1200 + tok[2]
      [] tok[1] = "sent_start" -> 2000 + tok[2]
      [] tok[1] = "entity1" -> 2100 + tok[2]
      [] tok[1] = "between" -> 2200 + tok[2]
      [] tok[1] = "entity2" -> 2300 + tok[2]
      [] tok[1] = "sent_end" -> 2400 + tok[2]

\* tokenizer.convert_tokens_to_ids(tokens)
convert_tokens_to_ids(toks) == [i \in 1..Len(toks) |-> VocabId(toks[i])]

-----------------------------------------------------------------------------
(* encode_tokenized and encode_tokenized_re, one example of the loop *)

\* The span part: the span's tokens, or the one replacement token
SpanPart(span, replace_span) ==
    IF replace_span = None THEN span ELSE <<replace_span>>

\* A variant of CenterLeft that pads after the left context instead of before it
CenterLeft_PadAfter(left, seq_len) ==
    LET center == Center(seq_len)
    IN  IF Len(left) > center - 1
        THEN PyFrom(left, Len(left) - (center - 1))
        ELSE left \o Repeat(PAD, (center - 1) - Len(left))

\* Lines 379-382: the left context cut to its last center-1 tokens, or
\* left-padded with [PAD] to center-1 tokens
CenterLeft(left, seq_len) ==
    LET center == Center(seq_len)
    IN  IF Len(left) > center - 1
        THEN PyFrom(left, Len(left) - (center - 1))
        ELSE Repeat(PAD, (center - 1) - Len(left)) \o left

\* A variant of Chop that leaves no room for [SEP]
Chop_NoRoomForSep(toks, seq_len) ==
    IF Len(toks) >= seq_len - 1 THEN PyTo(toks, seq_len) ELSE toks

\* A variant of Chop that keeps the last seq_len-1 tokens
Chop_KeepTail(toks, seq_len) ==
    IF Len(toks) >= seq_len - 1 THEN PyFrom(toks, Len(toks) - (seq_len - 1)) ELSE toks

\* A variant of Chop that never chops
Chop_Never(toks, seq_len) == toks

\* Lines 389-390 and 427-428: keep the first seq_len-1 tokens
Chop(toks, seq_len) ==
    IF Len(toks) >= seq_len - 1 THEN PyTo(toks, seq_len - 1) ELSE toks

\* Lines 393-394 and 431-432: [SEP], then [PAD] up to seq_len
Close(toks, seq_len) ==
    LET t == Append(toks, SEP)
    IN  t \o Repeat(PAD, seq_len - Len(t))

\* A variant of CenterSentStart that cuts the sentence start at its tail
CenterSentStart_CutTail(sent_start_tok, entity1_tok, between_tok, seq_len) ==
    LET center == Center(seq_len)
        before == Len(sent_start_tok \o entity1_tok) + RoundHalf(Len(between_tok))
    IN  IF before > center - 1
        THEN PyTo(sent_start_tok, Len(sent_start_tok) - (before - (center - 1)))
        ELSE Repeat(PAD, (center - 1) - Len(sent_start_tok \o entity1_tok)
                              + RoundHalf(Len(between_tok))) \o sent_start_tok

\* Lines 409-412: the sentence start cut at its head, or left-padded
CenterSentStart(sent_start_tok, entity1_tok, between_tok, seq_len) ==
    LET center == Center(seq_len)
        before == Len(sent_start_tok \o entity1_tok) + RoundHalf(Len(between_tok))
    IN  IF before > center - 1
        THEN PyFrom(sent_start_tok, before - (center - 1))
        ELSE Repeat(PAD, (center - 1) - Len(sent_start_tok \o entity1_tok)
                              + RoundHalf(Len(between_tok))) \o sent_start_tok

\* The tokens of one example of encode_tokenized (lines 377-394)
encode_tokenized(left, span, right, seq_len, replace_span) ==
    Close(Chop(<<CLS>> \o CenterLeft(left, seq_len)
                       \o SpanPart(span, replace_span) \o right, seq_len), seq_len)

\* The tokens of one example of encode_tokenized_re (lines 407-432)
encode_tokenized_re(t, seq_len, replace_span_A, replace_span_B) ==
    Close(Chop(<<CLS>> \o CenterSentStart(t[1], t[2], t[3], seq_len)
                       \o SpanPart(t[2], replace_span_A) \o t[3]
                       \o SpanPart(t[4], replace_span_B) \o t[5], seq_len), seq_len)

\* Lines 400-401 and 445-446: the sanity check on the lengths
SanityCheck(t, s, seq_len) == Len(t) = seq_len /\ Len(s) = seq_len

-----------------------------------------------------------------------------
(* The encoders as a state machine: Init draws a tokenized example and the  *)
(* options; EncodeNER / EncodeRE are encode_data's two branches.            *)

NERTexts ==
    { <<Segment("left", a), Segment("span", b), Segment("right", c)>> :
        a \in 0..MaxCtx, b \in 0..MaxEnt, c \in 0..MaxCtx }

RETexts ==
    { <<Segment("sent_start", x[1]), Segment("entity1", x[2]), Segment("between", x[3]),
        Segment("entity2", x[4]), Segment("sent_end", x[5])>> :
        x \in (0..MaxCtx) \X (0..MaxEnt) \X (0..MaxBetween) \X (0..MaxEnt) \X (0..MaxCtx) }

EncOptions ==
    [task_name : {"NER"}, max_seq_length : 2..MaxSeqLen,
     replace_span : {None, UnusedA}, replace_span_A : {None}, replace_span_B : {None},
     label_field : {-4}, text_fields : {-3}]
    \cup
    [task_name : {"RE"}, max_seq_length : 2..MaxSeqLen,
     replace_span : {None}, replace_span_A : {None, UnusedA}, replace_span_B : {None, UnusedB},
     label_field : {-6}, text_fields : {-5}]

\* No read of the file yet
NoCall == [reader |-> "none", idx |-> 0, status |-> "none", labels |-> <<>>,
           texts |-> <<>>, ln |-> 0, fn |-> "", count |-> 0]

\* No TsvSequence constructed yet
NoSeq == [constructed |-> FALSE, error |-> "", _batch_offsets |-> <<>>, num_examples |-> 0]

IdleParse == /\ l = <<>>
             /\ parsed = [status |-> "none"]

IdleLabels == /\ label_lines = <<>>
              /\ labels = <<>>
              /\ label_map = <<>>
              /\ inv_label_map = <<>>

IdleTsv == /\ file = <<>>
           /\ batch_size = 1
           /\ seq = NoSeq
           /\ call = NoCall

IdleConc == /\ workers = <<>>
            /\ cursor = <<>>

IdleFix == /\ tokenized_before = <<>>
           /\ tokenized = <<>>

IdleEnc == /\ texts = <<>>
           /\ head = <<>>
           /\ tokens = <<>>
           /\ tids = <<>>
           /\ sids = <<>>

InitEnc ==
    /\ options \in EncOptions
    /\ texts \in (IF options.task_name = "NER" THEN NERTexts ELSE RETexts)
    /\ head = <<>>
    /\ tokens = <<>>
    /\ tids = <<>>
    /\ sids = <<>>
    /\ pc = "tokenized"
    /\ IdleParse
    /\ IdleLabels
    /\ IdleTsv
    /\ IdleConc
    /\ IdleFix

\* encode_data, task_name == "NER": encode_tokenized on one example
EncodeNER ==
    /\ pc = "tokenized"
    /\ options.task_name = "NER"
    /\ LET seq_len == options.max_seq_length
           toks == encode_tokenized(texts[1], texts[2], texts[3], seq_len, options.replace_span)
           token_ids == convert_tokens_to_ids(toks)
           segment_ids == Repeat(0, seq_len)
       IN  /\ head' = CenterLeft(texts[1], seq_len)
           /\ tokens' = toks
           /\ tids' = token_ids
           /\ sids' = segment_ids
           /\ pc' = IF SanityCheck(token_ids, segment_ids, seq_len)
                    THEN "returned" ELSE "AssertionError"
    /\ UNCHANGED <<options, texts, parseVars, labelVars, tsvVars, concVars, fixVars>>

\* encode_data, any other task_name: encode_tokenized_re on one example
EncodeRE ==
    /\ pc = "tokenized"
    /\ options.task_name # "NER"
    /\ LET seq_len == options.max_seq_length
           toks == encode_tokenized_re(texts, seq_len, options.replace_span_A,
                                       options.replace_span_B)
           token_ids == convert_tokens_to_ids(toks)
           segment_ids == Repeat(0, seq_len)
       IN  /\ head' = CenterSentStart(texts[1], texts[2], texts[3], seq_len)
           /\ tokens' = toks
           /\ tids' = token_ids
           /\ sids' = segment_ids
           /\ pc' = IF SanityCheck(token_ids, segment_ids, seq_len)
                    THEN "returned" ELSE "AssertionError"
    /\ UNCHANGED <<options, texts, parseVars, labelVars, tsvVars, concVars, fixVars>>

NextEnc == EncodeNER \/ EncodeRE

SpecEnc == InitEnc /\ [][NextEnc]_vars

-----------------------------------------------------------------------------
(* parse_tsv_line *)

MinFields == 4

TAB == "\t"

LF == "\n"

CR == "\r"

\* l.rstrip('\n')
RECURSIVE RStripNewlines(_)
RStripNewlines(s) ==
    IF Len(s) > 0 /\ s[Len(s)] = LF THEN RStripNewlines(SubSeq(s, 1, Len(s) - 1)) ELSE s

\* l.split('\t'): the fields between the tabs, at least one
RECURSIVE Split(_, _)
Split(s, sep) ==
    IF \A i \in 1..Len(s) : s[i] # sep
    THEN <<s>>
    ELSE LET k == CHOOSE i \in 1..Len(s) :
                      s[i] = sep /\ \A j \in 1..(i - 1) : s[j] # sep
         IN  <<SubSeq(s, 1, k - 1)>> \o Split(SubSeq(s, k + 1, Len(s)), sep)

\* A variant of positive_index that leaves negative indices as they are
positive_index_Unresolved(i, fields) == i

positive_index(i, fields) == IF i >= 0 THEN i ELSE Len(fields) + i

\* The outcome of a parse: the pair returned, or the error raised
Parsed(label, text) == [status |-> "ok", label |-> label, text |-> text, ln |-> 0, fn |-> ""]

Raised(error, ln, fn) == [status |-> error, label |-> <<>>, text |-> <<>>, ln |-> ln, fn |-> fn]

parse_tsv_line(line, ln, fn, opts) ==
    LET fields == Split(RStripNewlines(line), TAB)
        n == Len(fields)
        text_end == positive_index(opts.text_fields, fields)
                        + (IF opts.task_name = "NER" THEN 3 ELSE 5)
    IN  IF n < MinFields THEN Raised("ValueError", ln, fn)
        ELSE IF opts.label_field >= n \/ opts.label_field < -n THEN Raised("IndexError", 0, "")
        ELSE Parsed(PyIndex(fields, opts.label_field),
                    PySlice(fields, opts.text_fields, text_end))

-----------------------------------------------------------------------------
(* parse_tsv_line as a state machine: Init draws a line and the field      *)
(* selectors; ParseTsvLine applies the function.                           *)

MaxFields == 7

Letters == <<"a", "b", "c", "d", "e", "f", "g", "h", "i", "j">>

\* fields joined by tabs
RECURSIVE Join(_)
Join(fields) ==
    IF Len(fields) = 0 THEN <<>>
    ELSE IF Len(fields) = 1 THEN fields[1]
    ELSE fields[1] \o <<TAB>> \o Join(Tail(fields))

\* A line of n one-letter fields, the j-th being the j-th letter
LineOfFields(n, eol) == Join([j \in 1..n |-> <<Letters[j]>>]) \o eol

ParseOptions ==
    [task_name : {"NER", "RE"}, max_seq_length : {MaxSeqLen},
     replace_span : {None}, replace_span_A : {None}, replace_span_B : {None},
     label_field : (-(MaxFields + 1))..MaxFields,
     text_fields : (-(MaxFields + 1))..MaxFields]

InitParse ==
    /\ options \in ParseOptions
    /\ \E n \in 1..MaxFields, eol \in {<<>>, <<LF>>} : l = LineOfFields(n, eol)
    /\ parsed = [status |-> "none"]
    /\ pc = "line"
    /\ IdleEnc
    /\ IdleLabels
    /\ IdleTsv
    /\ IdleConc
    /\ IdleFix

ParseTsvLine ==
    /\ pc = "line"
    /\ parsed' = parse_tsv_line(l, 1, "data.tsv", options)
    /\ pc' = "parsed"
    /\ UNCHANGED <<options, l, encVars, labelVars, tsvVars, concVars, fixVars>>

NextParse == ParseTsvLine

SpecParse == InitParse /\ [][NextParse]_vars

-----------------------------------------------------------------------------
(* load_labels, and the label maps of test.py *)

Whitespace == {" ", TAB, LF, CR}

\* line.strip()
RECURSIVE Strip(_)
Strip(s) ==
    IF Len(s) > 0 /\ s[1] \in Whitespace THEN Strip(Tail(s))
    ELSE IF Len(s) > 0 /\ s[Len(s)] \in Whitespace THEN Strip(SubSeq(s, 1, Len(s) - 1))
    ELSE s

\* line in labels
In(x, list) == \E i \in 1..Len(list) : list[i] = x

\* A variant of LabelSeen that looks the line up before stripping it
LabelSeen_Unstripped(line, seen) == In(line, seen)

\* Line 317-318: the stripped line is already in the list
LabelSeen(line, seen) == In(Strip(line), seen)

\* The loop of load_labels over the remaining lines, from the labels read so far:
\* the list returned, or the error raised at the first repeated line
RECURSIVE load_labels_from(_, _)
load_labels_from(lines, seen) ==
    IF Len(lines) = 0 THEN [status |-> "ok", labels |-> seen]
    ELSE IF LabelSeen(lines[1], seen) THEN [status |-> "ValueError", labels |-> <<>>]
    ELSE load_labels_from(Tail(lines), Append(seen, Strip(lines[1])))

load_labels(lines) == load_labels_from(lines, <<>>)

\* test.py line 20: { t: i for i, t in enumerate(labels) }, a later entry replacing an earlier one
LabelMap(list) ==
    [t \in {list[i] : i \in 1..Len(list)} |->
        (CHOOSE i \in 1..Len(list) :
            list[i] = t /\ \A j \in (i + 1)..Len(list) : list[j] # t) - 1]

\* test.py line 21: { v: k for k, v in label_map.items() }
InvLabelMap(map) ==
    [v \in {map[t] : t \in DOMAIN map} |-> CHOOSE t \in DOMAIN map : map[t] = v]

-----------------------------------------------------------------------------
(* The label file as a state machine: Init draws the lines of the file;    *)
(* LoadLabels is load_labels, BuildLabelMaps the two maps of test.py.      *)

MaxLabels == 3

RawLabelLines ==
    { <<"a", LF>>, <<" ", "a", LF>>, <<"a", " ", LF>>, <<"b", LF>>, <<"a", "b", LF>>, <<LF>> }

InitLabels ==
    /\ \E n \in 0..MaxLabels : label_lines \in [1..n -> RawLabelLines]
    /\ labels = <<>>
    /\ label_map = <<>>
    /\ inv_label_map = <<>>
    /\ pc = "file"
    /\ options = [task_name |-> "NER", max_seq_length |-> MaxSeqLen,
                  replace_span |-> None, replace_span_A |-> None, replace_span_B |-> None,
                  label_field |-> -4, text_fields |-> -3]
    /\ IdleEnc
    /\ IdleParse
    /\ IdleTsv
    /\ IdleConc
    /\ IdleFix

LoadLabels ==
    /\ pc = "file"
    /\ LET r == load_labels(label_lines)
       IN  /\ labels' = r.labels
           /\ pc' = IF r.status = "ok" THEN "loaded" ELSE r.status
    /\ UNCHANGED <<options, label_lines, label_map, inv_label_map, encVars, parseVars, tsvVars, concVars, fixVars>>

BuildLabelMaps ==
    /\ pc = "loaded"
    /\ label_map' = LabelMap(labels)
    /\ inv_label_map' = InvLabelMap(LabelMap(labels))
    /\ pc' = "mapped"
    /\ UNCHANGED <<options, label_lines, labels, encVars, parseVars, tsvVars, concVars, fixVars>>

NextLabels == LoadLabels \/ BuildLabelMaps

SpecLabels == InitLabels /\ [][NextLabels]_vars

-----------------------------------------------------------------------------
(* Reading the TSV file: load_tsv_data, tsv_generator, num_tsv_examples,   *)
(* load_batch_offsets, load_batch_from_tsv and TsvSequence.                *)
(* The file is a sequence of bytes; "c3" "a9" are the two bytes of one     *)
(* UTF-8 character.                                                        *)

DataPath == "data.tsv"

\* bytes.decode('utf-8'), and the decoding of a file opened in text mode
RECURSIVE Decode(_)
Decode(b) ==
    IF Len(b) = 0 THEN <<>>
    ELSE IF Len(b) >= 2 /\ b[1] = "c3" /\ b[2] = "a9"
         THEN <<"e'">> \o Decode(SubSeq(b, 3, Len(b)))
         ELSE <<b[1]>> \o Decode(Tail(b))

\* Iterating a file opened with 'rb': the lines end after each b'\n',
\* which they keep; a last line may have none
RECURSIVE BinaryLines(_)
BinaryLines(b) ==
    IF Len(b) = 0 THEN <<>>
    ELSE IF \A i \in 1..Len(b) : b[i] # LF THEN <<b>>
    ELSE LET k == CHOOSE i \in 1..Len(b) : b[i] = LF /\ \A j \in 1..(i - 1) : b[j] # LF
         IN  <<SubSeq(b, 1, k)>> \o BinaryLines(SubSeq(b, k + 1, Len(b)))

\* Iterating a file opened in text mode (universal newlines): the lines end
\* after '\n', '\r' or '\r\n', each handed over as '\n'
RECURSIVE UniversalLines(_)
UniversalLines(t) ==
    IF Len(t) = 0 THEN <<>>
    ELSE IF \A i \in 1..Len(t) : t[i] \notin {LF, CR} THEN <<t>>
    ELSE LET k == CHOOSE i \in 1..Len(t) :
                      t[i] \in {LF, CR} /\ \A j \in 1..(i - 1) : t[j] \notin {LF, CR}
             next == IF t[k] = CR /\ k < Len(t) /\ t[k + 1] = LF THEN k + 2 ELSE k + 1
         IN  <<SubSeq(t, 1, k - 1) \o <<LF>>>> \o UniversalLines(SubSeq(t, next, Len(t)))

TextLines(b) == UniversalLines(Decode(b))

\* The loop "for ln, l in enumerate(lines, start): parse_tsv_line(l, ln, ...)"
\* with the labels and texts appended so far: it ends with the lines, or at
\* the first error
RECURSIVE ParseLines(_, _, _, _, _, _)
ParseLines(lines, ln, fn, opts, labs, txts) ==
    IF Len(lines) = 0
    THEN [status |-> "ok", labels |-> labs, texts |-> txts, ln |-> 0, fn |-> ""]
    ELSE LET r == parse_tsv_line(lines[1], ln, fn, opts)
         IN  IF r.status # "ok"
             THEN [status |-> r.status, labels |-> labs, texts |-> txts, ln |-> r.ln, fn |-> r.fn]
             ELSE ParseLines(Tail(lines), ln + 1, fn, opts,
                             Append(labs, r.label), Append(txts, r.text))

\* What a function that raised hands back: nothing
NothingReturned(r) ==
    IF r.status = "ok" THEN r ELSE [r EXCEPT !.labels = <<>>, !.texts = <<>>]

\* Lines 471-478
load_tsv_data(bytes, fn, opts) ==
    NothingReturned(ParseLines(TextLines(bytes), 1, fn, opts, <<>>, <<>>))

\* Lines 527-535, run until it is exhausted or raises: the examples yielded
\* before that are in labels and texts
tsv_generator(bytes, data_path, opts) ==
    ParseLines(TextLines(bytes), 1, data_path, opts, <<>>, <<>>)

\* Line 539
num_tsv_examples(bytes) == Len(TextLines(bytes))

\* The loop of lines 505-508 over the remaining lines
RECURSIVE OffsetsLoop(_, _, _, _, _)
OffsetsLoop(lines, ln, offset, offsets, bs) ==
    IF Len(lines) = 0 THEN offsets
    ELSE OffsetsLoop(Tail(lines), ln + 1, offset + Len(lines[1]),
                     IF ln % bs = 0 THEN Append(offsets, offset) ELSE offsets, bs)

\* Lines 502-509: the offsets, and ln as the loop leaves it (the index of
\* the last line, counted from 0); ln is unbound when the file has no line
load_batch_offsets(bytes, bs) ==
    LET lines == BinaryLines(bytes)
    IN  IF Len(lines) = 0
        THEN [NoSeq EXCEPT !.error = "UnboundLocalError"]
        ELSE [constructed |-> TRUE, error |-> "",
              _batch_offsets |-> OffsetsLoop(lines, 0, 0, <<>>, bs),
              num_examples |-> Len(lines) - 1]

\* Lines 512-524: seek to offset, parse at most batch_size lines, the
\* first of them numbered base_ln
load_batch_from_tsv(bytes, fn, base_ln, offset, bs, opts) ==
    LET lines == BinaryLines(PyFrom(bytes, offset))
        batch == [i \in 1..Min(bs, Len(lines)) |-> Decode(lines[i])]
    IN  NothingReturned(ParseLines(batch, base_ln + 0, fn, opts, <<>>, <<>>))

-----------------------------------------------------------------------------
(* The file readers as a state machine: Init draws the file and the batch  *)
(* size; every action is one call.                                         *)

MaxLines == 3

MaxBatch == 3

Digits == <<"1", "2", "3", "4", "5", "6", "7", "8">>

\* The bytes of the letter that marks the fields of line i: the second
\* line's is a two-byte character
TagBytes(i) == IF i = 2 THEN <<"c3", "a9">> ELSE <<Letters[i]>>

\* Line i of the file: nf fields, the j-th made of the line's letter and the digit j
LineBytes(i, nf, eol) == Join([j \in 1..nf |-> TagBytes(i) \o <<Digits[j]>>]) \o eol

Eols == {<<LF>>, <<CR, LF>>}

LineShapes == ((MinFields - 1)..(MinFields + 1)) \X (Eols \cup {<<>>})

RECURSIVE FileOf(_, _)
FileOf(shape, n) ==
    IF n = 0 THEN <<>>
    ELSE FileOf(shape, n - 1) \o LineBytes(n, shape[n][1], shape[n][2])

\* Every line but the last ends in a newline
Files ==
    { FileOf(shape, Len(shape)) :
        shape \in UNION { { sh \in [1..n -> LineShapes] :
                               \A i \in 1..(n - 1) : sh[i][2] # <<>> } : n \in 0..MaxLines } }

InitTsv ==
    /\ file \in Files
    /\ batch_size \in 1..MaxBatch
    /\ seq = NoSeq
    /\ call = NoCall
    /\ pc = "open"
    /\ options = [task_name |-> "NER", max_seq_length |-> MaxSeqLen,
                  replace_span |-> None, replace_span_A |-> None, replace_span_B |-> None,
                  label_field |-> -4, text_fields |-> -3]
    /\ IdleEnc
    /\ IdleParse
    /\ IdleLabels
    /\ IdleConc
    /\ IdleFix

Result(reader, idx, r) ==
    [reader |-> reader, idx |-> idx, status |-> r.status, labels |-> r.labels,
     texts |-> r.texts, ln |-> r.ln, fn |-> r.fn, count |-> 0]

LoadTsvData ==
    /\ call' = Result("load_tsv_data", 0, load_tsv_data(file, DataPath, options))
    /\ UNCHANGED <<options, pc, file, batch_size, seq, encVars, parseVars, labelVars, concVars, fixVars>>

TsvGenerator ==
    /\ call' = Result("tsv_generator", 0, tsv_generator(file, DataPath, options))
    /\ UNCHANGED <<options, pc, file, batch_size, seq, encVars, parseVars, labelVars, concVars, fixVars>>

NumTsvExamples ==
    /\ call' = [NoCall EXCEPT !.reader = "num_tsv_examples", !.status = "ok",
                              !.count = num_tsv_examples(file)]
    /\ UNCHANGED <<options, pc, file, batch_size, seq, encVars, parseVars, labelVars, concVars, fixVars>>

\* TsvSequence.__init__ (lines 604-613)
TsvSequenceInit ==
    /\ pc = "open"
    /\ seq' = load_batch_offsets(file, batch_size)
    /\ pc' = IF seq'.constructed THEN "constructed" ELSE seq'.error
    /\ UNCHANGED <<options, file, batch_size, call, encVars, parseVars, labelVars, concVars, fixVars>>

\* TsvSequence.__getitem__(idx) for a batch index of the sequence (lines 618-622)
GetItem(idx) ==
    /\ seq.constructed
    /\ LET base_ln == idx * batch_size
           offset == seq._batch_offsets[idx + 1]
       IN  call' = Result("getitem", idx,
                          load_batch_from_tsv(file, DataPath, base_ln, offset,
                                              batch_size, options))
    /\ UNCHANGED <<options, pc, file, batch_size, seq, encVars, parseVars, labelVars, concVars, fixVars>>

GetAnyItem == \E idx \in 0..(Len(seq._batch_offsets) - 1) : GetItem(idx)

NextTsv == LoadTsvData \/ TsvGenerator \/ NumTsvExamples \/ TsvSequenceInit \/ GetAnyItem

SpecTsv == InitTsv /\ [][NextTsv]_vars

-----------------------------------------------------------------------------
(* Concurrent TsvSequence.__getitem__ calls: every worker runs                *)
(* load_batch_from_tsv step by step (open, seek, one line per step) on the    *)
(* file handle its call opened, interleaved with the other workers.           *)

Workers == {"w1", "w2"}

\* A variant of HandleOf in which all calls read through one shared file object
HandleOf_Shared(w) == "w1"

\* Line 515: the file object of a call is the one that call opened
HandleOf(w) == w

\* f.readline() at position pos: the bytes up to and with the next b'\n',
\* or up to the end of the file; empty at the end of the file
ReadLineAt(bytes, pos) ==
    LET ends == {i \in (pos + 1)..Len(bytes) : bytes[i] = LF}
    IN  IF pos >= Len(bytes) THEN <<>>
        ELSE IF ends = {} THEN SubSeq(bytes, pos + 1, Len(bytes))
        ELSE SubSeq(bytes, pos + 1, CHOOSE i \in ends : \A j \in ends : i <= j)

\* A worker that has made no call
IdleWorker ==
    [pc |-> "idle", idx |-> 0, base_ln |-> 0, offset |-> 0, ln |-> 0,
     labels |-> <<>>, texts |-> <<>>, err_ln |-> 0, err_fn |-> ""]

\* The files of the concurrent runs: those without a carriage return
ConcFiles == { f \in Files : \A i \in 1..Len(f) : f[i] # CR }

InitConc ==
    /\ file \in ConcFiles
    /\ batch_size \in 1..MaxBatch
    /\ seq = NoSeq
    /\ call = NoCall
    /\ pc = "open"
    /\ workers = [w \in Workers |-> IdleWorker]
    /\ cursor = [h \in Workers |-> 0]
    /\ options = [task_name |-> "NER", max_seq_length |-> MaxSeqLen,
                  replace_span |-> None, replace_span_A |-> None, replace_span_B |-> None,
                  label_field |-> -4, text_fields |-> -3]
    /\ IdleEnc
    /\ IdleParse
    /\ IdleLabels
    /\ IdleFix

\* TsvSequence.__init__, before any worker runs
ConcSequenceInit ==
    /\ pc = "open"
    /\ seq' = load_batch_offsets(file, batch_size)
    /\ pc' = IF seq'.constructed THEN "constructed" ELSE seq'.error
    /\ UNCHANGED <<options, file, batch_size, call, encVars, parseVars, labelVars,
                   concVars, fixVars>>

\* __getitem__(idx) up to the open of load_batch_from_tsv (lines 619-621, 514-515)
GetItemOpen(w, idx) ==
    /\ seq.constructed
    /\ workers[w].pc \in {"idle", "returned", "raised"}
    /\ workers' = [workers EXCEPT ![w] =
                      [pc |-> "opened", idx |-> idx, base_ln |-> idx * batch_size,
                       offset |-> seq._batch_offsets[idx + 1], ln |-> 0,
                       labels |-> <<>>, texts |-> <<>>, err_ln |-> 0, err_fn |-> ""]]
    /\ cursor' = [cursor EXCEPT ![HandleOf(w)] = 0]
    /\ UNCHANGED <<options, pc, tsvVars, encVars, parseVars, labelVars, fixVars>>

\* f.seek(offset) (line 516)
GetItemSeek(w) ==
    /\ workers[w].pc = "opened"
    /\ cursor' = [cursor EXCEPT ![HandleOf(w)] = workers[w].offset]
    /\ workers' = [workers EXCEPT ![w].pc = "reading"]
    /\ UNCHANGED <<options, pc, tsvVars, encVars, parseVars, labelVars, fixVars>>

\* One iteration of the loop of lines 517-523: the file is exhausted, or the
\* next line is read and the batch is full (break), or the line is parsed
GetItemReadLine(w) ==
    /\ workers[w].pc = "reading"
    /\ LET me == workers[w]
           line == ReadLineAt(file, cursor[HandleOf(w)])
           r == parse_tsv_line(Decode(line), me.base_ln + me.ln, DataPath, options)
       IN  /\ cursor' = [cursor EXCEPT ![HandleOf(w)] = @ + Len(line)]
           /\ workers' = [workers EXCEPT ![w] =
                 IF line = <<>> \/ Len(me.texts) >= batch_size
                 THEN [me EXCEPT !.pc = "returned"]
                 ELSE IF r.status # "ok"
                 THEN [me EXCEPT !.pc = "raised", !.labels = <<>>, !.texts = <<>>,
                                 !.err_ln = r.ln, !.err_fn = r.fn]
                 ELSE [me EXCEPT !.labels = Append(@, r.label),
                                 !.texts = Append(@, r.text), !.ln = @ + 1]]
    /\ UNCHANGED <<options, pc, tsvVars, encVars, parseVars, labelVars, fixVars>>

ConcGetItemOpen == \E w \in Workers, idx \in 0..(Len(seq._batch_offsets) - 1) : GetItemOpen(w, idx)

ConcGetItemSeek == \E w \in Workers : GetItemSeek(w)

ConcGetItemReadLine == \E w \in Workers : GetItemReadLine(w)

NextConc == ConcSequenceInit \/ ConcGetItemOpen \/ ConcGetItemSeek \/ ConcGetItemReadLine

SpecConc == InitConc /\ [][NextConc]_vars

-----------------------------------------------------------------------------
(* fix_unused_tokens and tokenize_texts_re; here a token is a string *)

\* list.pop(i): the list without its element of (0-based) index i
Pop(s, i) == SubSeq(s, 1, i) \o SubSeq(s, i + 2, Len(s))

\* A variant of PopContinuation that leaves the ##3 token in the list
PopContinuation_Kept(before, i) == before

\* Line 349: tokenized_text_before.pop(i+1)
PopContinuation(before, i) == Pop(before, i + 1)

\* The loop of lines 345-351 from index i on: the iteration ends when i
\* reaches the length the list has by then
RECURSIVE FixLoop(_, _, _)
FixLoop(before, i, tokenized_text) ==
    IF i >= Len(before) THEN tokenized_text
    ELSE IF PySlice(before, i, i + 2) = <<"unused", "##3">>
         THEN FixLoop(PopContinuation(before, i), i + 1, Append(tokenized_text, "[unused3]"))
         ELSE FixLoop(before, i + 1, Append(tokenized_text, before[i + 1]))

\* Lines 343-352
fix_unused_tokens(tokenized_text_before) == FixLoop(tokenized_text_before, 0, <<>>)

\* Lines 357-362: the five segments of one example, each fixed on its own
tokenize_texts_re(segments) == [k \in 1..5 |-> fix_unused_tokens(segments[k])]

-----------------------------------------------------------------------------
(* tokenize_texts_re as a state machine: Init draws what the tokenizer      *)
(* returns for the five segments of an example; TokenizeTextsRe fixes them. *)

MaxTokens == 4

WordPieces == {"unused", "##3", "x"}

\* The token lists of at most n tokens
TokenLists(n) == UNION { [1..k -> WordPieces] : k \in 0..n }

\* The token lists drawn for the segments after the first
ShortSegments == { <<"##3">>, <<"unused", "##3">> }

InitFix ==
    /\ tokenized_before \in
          { <<a, b[1], b[2], b[3], b[4]>> :
              a \in TokenLists(MaxTokens), b \in [1..4 -> ShortSegments] }
    /\ tokenized = <<>>
    /\ pc = "tokenized"
    /\ options = [task_name |-> "RE", max_seq_length |-> MaxSeqLen,
                  replace_span |-> None, replace_span_A |-> None, replace_span_B |-> None,
                  label_field |-> -6, text_fields |-> -5]
    /\ IdleEnc
    /\ IdleParse
    /\ IdleLabels
    /\ IdleTsv
    /\ IdleConc

\* tokenize_texts_re on one example
TokenizeTextsRe ==
    /\ pc = "tokenized"
    /\ tokenized' = tokenize_texts_re(tokenized_before)
    /\ pc' = "fixed"
    /\ UNCHANGED <<options, tokenized_before, encVars, parseVars, labelVars, tsvVars, concVars>>

NextFix == TokenizeTextsRe

SpecFix == InitFix /\ [][NextFix]_vars

-----------------------------------------------------------------------------
(* Properties of the encoders *)

SeqLen == options.max_seq_length

Returned == pc = "returned"

IsSuffix(s, t) == Len(s) <= Len(t) /\ s = SubSeq(t, Len(t) - Len(s) + 1, Len(t))

\* The input lengths of the example, by segment
LenOf(i) == Len(texts[i])

\* C1: for every seq_len >= 2 and token lists of any lengths, both encoders
\* return a token-id sequence and a segment-id sequence of length exactly
\* seq_len, the segment ids are all 0, and the sanity check never fails.
C1_ExactLength ==
    /\ pc # "AssertionError"
    /\ Returned =>
        /\ Len(tids) = SeqLen
        /\ Len(sids) = SeqLen
        /\ \A i \in 1..Len(sids) : sids[i] = 0

\* An over-length relation-extraction example was encoded
C1_Witness ==
    /\ Returned
    /\ options.task_name = "RE"
    /\ LenOf(1) + LenOf(2) + LenOf(3) + LenOf(4) + LenOf(5) > SeqLen
    /\ Len(tids) = SeqLen

NER == Returned /\ options.task_name = "NER"

NERSpan == IF options.replace_span = None THEN texts[2] ELSE <<options.replace_span>>

\* C2 as claimed: in NER mode, whenever 1 + len(left) + len(span part) +
\* len(right) < seq_len-1, the tokens are exactly [CLS], left, span part,
\* right, [SEP], then [PAD] only, with nothing between [CLS] and the left tokens.
C2_AsClaimed ==
    (NER /\ 1 + LenOf(1) + Len(NERSpan) + LenOf(3) < SeqLen - 1) =>
        tokens = <<CLS>> \o texts[1] \o NERSpan \o texts[3] \o <<SEP>>
                 \o [i \in 1..(SeqLen - (2 + LenOf(1) + Len(NERSpan) + LenOf(3))) |-> PAD]

\* C2 as amended: in NER mode, whenever center + len(span part) + len(right)
\* < seq_len-1 (center = seq_len // 2), the tokens are exactly [CLS], then a
\* window of exactly center-1 tokens made of the left tokens preceded by
\* [PAD] (or of the last center-1 left tokens), then the span part, the right
\* tokens, [SEP], and [PAD] only.
C2_CenteredLeft ==
    (NER /\ (SeqLen \div 2) + Len(NERSpan) + LenOf(3) < SeqLen - 1) =>
        \E p \in 0..SeqLen, d \in 0..LenOf(1) :
            /\ p = 0 \/ d = 0
            /\ p + (LenOf(1) - d) = (SeqLen \div 2) - 1
            /\ tokens = <<CLS>> \o [i \in 1..p |-> PAD]
                        \o SubSeq(texts[1], d + 1, LenOf(1))
                        \o NERSpan \o texts[3] \o <<SEP>>
                        \o [i \in 1..(SeqLen - ((SeqLen \div 2) + Len(NERSpan) + LenOf(3) + 1)) |-> PAD]

\* The example of the specification: left = [left, text], span = [SPAN],
\* right = [right, text], seq_len = 10, no replacement
C2_Witness ==
    /\ NER
    /\ SeqLen = 10 /\ options.replace_span = None
    /\ LenOf(1) = 2 /\ LenOf(2) = 1 /\ LenOf(3) = 2
    /\ tokens = <<CLS, PAD, PAD, <<"left", 1>>, <<"left", 2>>, <<"span", 1>>,
                  <<"right", 1>>, <<"right", 2>>, SEP, PAD>>

\* C3 as claimed: in NER mode, when [CLS]+left+span+right has length >=
\* seq_len-1, exactly its first seq_len-1 tokens are retained, so no token
\* at the head of the left context is dropped.
C3_AsClaimed ==
    (NER /\ 1 + LenOf(1) + Len(NERSpan) + LenOf(3) >= SeqLen - 1) =>
        SubSeq(tokens, 1, SeqLen - 1)
            = SubSeq(<<CLS>> \o texts[1] \o NERSpan \o texts[3], 1, SeqLen - 1)

\* The left context as it enters the token sequence: its last center-1
\* tokens, or all of it after center-1-len(left) [PAD] tokens
C3_Window ==
    LET w == (SeqLen \div 2) - 1
    IN  IF LenOf(1) > w
        THEN SubSeq(texts[1], LenOf(1) - w + 1, LenOf(1))
        ELSE [i \in 1..(w - LenOf(1)) |-> PAD] \o texts[1]

\* C3 as amended: in NER mode, when [CLS] + window + span part + right has
\* length >= seq_len-1, where window is the left context cut to its last
\* center-1 tokens or left-padded to center-1 tokens, exactly the first
\* seq_len-1 tokens of that sequence are retained, [CLS] stays at index 0
\* and [SEP] follows at index seq_len-1: only a trailing suffix is dropped.
C3_KeepsPrefixOfWindowed ==
    (NER /\ (SeqLen \div 2) + Len(NERSpan) + LenOf(3) >= SeqLen - 1) =>
        /\ SubSeq(tokens, 1, SeqLen - 1)
              = SubSeq(<<CLS>> \o C3_Window \o NERSpan \o texts[3], 1, SeqLen - 1)
        /\ tokens[1] = CLS
        /\ tokens[SeqLen] = SEP

\* Right context was chopped, and the head of the left context was dropped too
C3_Witness ==
    /\ NER
    /\ (SeqLen \div 2) + Len(NERSpan) + LenOf(3) > SeqLen - 1
    /\ LenOf(1) > (SeqLen \div 2) - 1
    /\ LenOf(3) > 0
    /\ tokens[2] = <<"left", LenOf(1) - (SeqLen \div 2) + 2>>

RE == Returned /\ options.task_name = "RE"

\* len(sent_start) + len(entity1) + round(len(between)/2)
REBefore == LenOf(1) + LenOf(2) + RoundHalf(LenOf(3))

\* C4: in relation-extraction mode, when len(sent_start) + len(entity1) +
\* round(len(between)/2) <= center-1, the number p of [PAD] tokens prepended
\* to sent_start satisfies p + len(sent_start) + len(entity1) +
\* round(len(between)/2) = center-1.
C4_PadsToCenter ==
    (RE /\ REBefore <= (SeqLen \div 2) - 1) =>
        /\ IsSuffix(texts[1], head)
        /\ (Len(head) - LenOf(1)) + REBefore = (SeqLen \div 2) - 1

REEntity == IF options.replace_span_A = None THEN texts[2] ELSE <<options.replace_span_A>>

\* C5 as claimed: in relation-extraction mode, when len(sent_start) +
\* len(entity1) + round(len(between)/2) > center-1, only a suffix of
\* sent_start is kept and the first token of entity1 (or of replacement
\* token A) lands at token index center, center-1 or center+1.
C5_AsClaimed ==
    (RE /\ REBefore > (SeqLen \div 2) - 1) =>
        /\ IsSuffix(head, texts[1])
        /\ Len(REEntity) > 0 =>
             \E idx \in {(SeqLen \div 2) - 1, SeqLen \div 2, (SeqLen \div 2) + 1} :
                 idx + 1 <= Len(tokens) /\ tokens[idx + 1] = REEntity[1]

\* C5 as amended: in relation-extraction mode, when len(sent_start) +
\* len(entity1) + round(len(between)/2) > center-1, only a suffix of
\* sent_start is kept (its first min(len(sent_start), excess) tokens are
\* dropped, excess being that sum minus (center-1)), and for seq_len >= 3 the
\* first token of entity1 (or of replacement token A) lands at token index
\* 1 + max(0, center-1 - len(entity1) - round(len(between)/2)), which is
\* never above center.
C5_EntityIndex ==
    (RE /\ REBefore > (SeqLen \div 2) - 1) =>
        /\ IsSuffix(head, texts[1])
        /\ LenOf(1) - Len(head) =
              (IF LenOf(1) < REBefore - ((SeqLen \div 2) - 1)
               THEN LenOf(1) ELSE REBefore - ((SeqLen \div 2) - 1))
        /\ (Len(REEntity) > 0 /\ SeqLen >= 3) =>
             LET idx == 1 + (IF (SeqLen \div 2) - 1 - LenOf(2) - RoundHalf(LenOf(3)) > 0
                             THEN (SeqLen \div 2) - 1 - LenOf(2) - RoundHalf(LenOf(3))
                             ELSE 0)
             IN  /\ idx <= SeqLen \div 2
                 /\ tokens[idx + 1] = REEntity[1]

\* Entities far apart with seq_len = 16: sent_start is cut at its head and
\* entity1 begins well before index center-1
C5_Witness ==
    /\ RE
    /\ SeqLen = 16
    /\ LenOf(3) = 6 /\ LenOf(2) = 2 /\ LenOf(1) = 4
    /\ head = <<<<"sent_start", 3>>, <<"sent_start", 4>>>>
    /\ tokens[4] = <<"entity1", 1>>

-----------------------------------------------------------------------------
(* Properties of parse_tsv_line *)

\* The number of tab-separated fields of the line
NumFields == Cardinality({i \in 1..Len(l) : l[i] = TAB}) + 1

\* The number of spans of the task
SpanCount == IF options.task_name = "NER" THEN 3 ELSE 5

\* A configured index resolved against the line: len(fields)+i when i < 0
Resolved(i) == IF i < 0 THEN NumFields + i ELSE i

-----------------------------------------------------------------------------
(* Properties of load_labels *)

\* The content of the n-th line of the label file, without surrounding whitespace
Stripped(n) ==
    LET line == label_lines[n]
        inner == {i \in 1..Len(line) : line[i] \notin {" ", TAB, LF, CR}}
    IN  IF inner = {} THEN <<>>
        ELSE SubSeq(line, CHOOSE i \in inner : \A j \in inner : i <= j,
                          CHOOSE i \in inner : \A j \in inner : i >= j)

\* Some whitespace-stripped line of the label file repeats
HasRepeat ==
    \E i, j \in 1..Len(label_lines) : i < j /\ Stripped(i) = Stripped(j)

\* C10: load_labels raises an error for every label file in which some
\* whitespace-stripped line repeats, and otherwise returns the (stripped)
\* lines in file order; for every list it returns, the map label -> index
\* and its inverse satisfy label_to_id[id_to_label[i]] = i for all i in
\* [0, num_labels).
C10_LabelRoundTrip ==
    /\ pc # "file" => (pc = "ValueError" <=> HasRepeat)
    /\ pc \in {"loaded", "mapped"} =>
          /\ Len(labels) = Len(label_lines)
          /\ \A n \in 1..Len(labels) : labels[n] = Stripped(n)
    /\ pc = "mapped" =>
          \A i \in 0..(Len(labels) - 1) :
              /\ i \in DOMAIN inv_label_map
              /\ inv_label_map[i] \in DOMAIN label_map
              /\ label_map[inv_label_map[i]] = i
              /\ inv_label_map[i] = labels[i + 1]

\* A file of three different labels, one written with surrounding blanks,
\* was loaded and mapped
C10_Witness ==
    /\ pc = "mapped"
    /\ Len(labels) = 3
    /\ label_lines[2] = <<" ", "a", LF>>
    /\ label_map[<<"a">>] = 1
    /\ inv_label_map[2] = labels[3]

-----------------------------------------------------------------------------
(* Properties of the file readers *)

\* The positions of the newline bytes of the file
NewlineAt == {i \in 1..Len(file) : file[i] = LF}

\* The number of lines of the file
NumLines ==
    Cardinality(NewlineAt) + (IF Len(file) > 0 /\ file[Len(file)] # LF THEN 1 ELSE 0)

\* The position of the newline that ends line k (1-based), or of the last byte
LineEnd(k) ==
    IF k <= Cardinality(NewlineAt)
    THEN CHOOSE p \in NewlineAt : Cardinality({q \in NewlineAt : q <= p}) = k
    ELSE Len(file)

LineStart(k) == IF k = 1 THEN 1 ELSE LineEnd(k - 1) + 1

\* Line k (1-based) has fewer than 4 tab-separated fields
Malformed(k) ==
    Cardinality({i \in LineStart(k)..LineEnd(k) : file[i] = TAB}) + 1 < 4

\* The lines a read goes through, as 1-based line numbers of the whole file
FirstLineRead == IF call.reader = "getitem" THEN call.idx * batch_size + 1 ELSE 1

LastLineRead ==
    IF call.reader = "getitem"
    THEN (IF (call.idx + 1) * batch_size < NumLines
          THEN (call.idx + 1) * batch_size ELSE NumLines)
    ELSE NumLines

MalformedRead == {k \in FirstLineRead..LastLineRead : Malformed(k)}

FirstMalformedRead == CHOOSE k \in MalformedRead : \A j \in MalformedRead : k <= j

\* C7: whenever a line with fewer than 4 tab-separated fields is read,
\* through load_tsv_data, tsv_generator or TsvSequence.__getitem__ for any
\* batch index, the read aborts with an error that names the file and the
\* 1-based line number of that line within the whole file, and no
\* (labels, texts) result is returned for that read.
C7_ErrorNamesLine ==
    (call.reader \in {"load_tsv_data", "tsv_generator", "getitem"} /\ MalformedRead # {}) =>
        /\ call.status = "ValueError"
        /\ call.fn = DataPath
        /\ call.ln = FirstMalformedRead
        /\ call.reader # "tsv_generator" => (call.labels = <<>> /\ call.texts = <<>>)
        /\ call.reader = "tsv_generator" => Len(call.texts) = FirstMalformedRead - 1

AllWellFormed == NumLines >= 1 /\ \A k \in 1..NumLines : ~Malformed(k)

\* C8: for every file of N >= 1 well-formed lines, every batch_size >= 1
\* and every batch index k in [0, len(offsets)), seeking to offsets[k] and
\* reading with load_batch_from_tsv returns exactly the (label, spans)
\* tuples of lines k*batch_size .. min((k+1)*batch_size, N)-1 of a full
\* scan by load_tsv_data, in the same order; every line belongs to exactly
\* one batch.
C8_BatchEqualsScan ==
    (call.reader = "getitem" /\ AllWellFormed) =>
        LET scan == load_tsv_data(file, DataPath, options)
        IN  /\ call.status = "ok"
            /\ scan.status = "ok"
            /\ (Len(seq._batch_offsets) - 1) * batch_size < NumLines
            /\ NumLines <= Len(seq._batch_offsets) * batch_size
            /\ call.labels = SubSeq(scan.labels, FirstLineRead, LastLineRead)
            /\ call.texts = SubSeq(scan.texts, FirstLineRead, LastLineRead)

\* C8 on the files without a carriage return: there the batches are the
\* slices of the full scan
C8_WithoutCarriageReturn ==
    (\A i \in 1..Len(file) : file[i] # CR) => C8_BatchEqualsScan

\* C9: the second result of load_batch_offsets, hence
\* TsvSequence.num_examples, is the total line count N of the file, the
\* number num_tsv_examples returns for it.
C9_TotalIsLineCount ==
    seq.constructed =>
        /\ seq.num_examples = NumLines
        /\ seq.num_examples = num_tsv_examples(file)

-----------------------------------------------------------------------------
(* Properties of concurrent __getitem__ calls *)

\* What a single isolated __getitem__(idx) hands to encode_data
IsolatedCall(idx) ==
    load_batch_from_tsv(file, DataPath, idx * batch_size,
                        seq._batch_offsets[idx + 1], batch_size, options)

\* C11: for a constructed TsvSequence over an unchanged file, __getitem__
\* calls issued concurrently by several workers, in any order and
\* interleaving and with repeated indices, each end as a single isolated
\* call for that index does (the same batch, or the same error), and no
\* call modifies _batch_offsets or num_examples.
C11_CallsAreIsolated ==
    /\ seq.constructed => seq = load_batch_offsets(file, batch_size)
    /\ \A w \in DOMAIN workers :
          workers[w].pc \in {"returned", "raised"} =>
              LET r == IsolatedCall(workers[w].idx)
              IN  /\ (workers[w].pc = "returned") <=> (r.status = "ok")
                  /\ workers[w].labels = r.labels
                  /\ workers[w].texts = r.texts
                  /\ workers[w].err_ln = r.ln
                  /\ workers[w].err_fn = r.fn

\* Worker w1 returned the second batch while worker w2 was in the middle of
\* reading the first one
C11_Witness ==
    /\ DOMAIN workers = Workers
    /\ workers["w1"].pc = "returned"
    /\ workers["w1"].idx = 1
    /\ Len(workers["w1"].texts) >= 1
    /\ workers["w2"].pc = "reading"
    /\ workers["w2"].idx = 0
    /\ workers["w2"].ln = 1
    /\ batch_size >= 2

-----------------------------------------------------------------------------
(* Properties of fix_unused_tokens *)

\* A list with each adjacent pair "unused", "##3" replaced by "[unused3]"
RECURSIVE Recombined(_)
Recombined(s) ==
    IF Len(s) = 0 THEN <<>>
    ELSE IF Len(s) >= 2 /\ s[1] = "unused" /\ s[2] = "##3"
         THEN <<"[unused3]">> \o Recombined(SubSeq(s, 3, Len(s)))
         ELSE <<s[1]>> \o Recombined(SubSeq(s, 2, Len(s)))

\* The positions at which an adjacent pair "unused", "##3" begins
PairsIn(s) == {i \in 1..(Len(s) - 1) : s[i] = "unused" /\ s[i + 1] = "##3"}

\* C12: for every token list, fix_unused_tokens returns the list in which
\* each adjacent pair ("unused", "##3") of the input is replaced by the
\* single token "[unused3]" and every other token is kept once, in order:
\* its length is len(input) minus the number of pairs and it contains no
\* adjacent ("unused", "##3") pair; tokenize_texts_re applies it to each of
\* the five segments independently.
C12_PairsRecombined ==
    pc = "fixed" =>
        /\ Len(tokenized) = 5
        /\ \A k \in 1..5 :
              /\ tokenized[k] = Recombined(tokenized_before[k])
              /\ Len(tokenized[k]) = Len(tokenized_before[k])
                                        - Cardinality(PairsIn(tokenized_before[k]))
              /\ PairsIn(tokenized[k]) = {}

\* A first segment with a pair in the middle and a trailing "unused", next
\* to a segment that starts with "##3": the pair is replaced, the tokens on
\* the two sides of the segment boundary are kept
C12_Witness ==
    /\ pc = "fixed"
    /\ tokenized_before[1] = <<"x", "unused", "##3", "unused">>
    /\ tokenized_before[2] = <<"##3">>
    /\ tokenized[1] = <<"x", "[unused3]", "unused">>
    /\ tokenized[2] = <<"##3">>

-----------------------------------------------------------------------------
(* The second entity under the right-truncation of encode_tokenized_re *)

REEntity2 == IF options.replace_span_B = None THEN texts[4] ELSE <<options.replace_span_B>>

\* The (0-based) token index at which entity2, or replacement token B,
\* begins before the chop
Entity2Start == 1 + Len(head) + Len(REEntity) + LenOf(3)

\* No token of the encoded sequence is a token of entity2 or replacement token B
Entity2Absent == \A i \in 1..Len(tokens) : tokens[i][1] \notin {"entity2", "[unused2]"}

\* C13: in relation-extraction mode the right-truncation to seq_len-1
\* tokens can remove the second entity: whenever entity2 (or replacement
\* token B) would begin at token index seq_len-1 or later,
\* encode_tokenized_re completes without any error and returns a
\* length-seq_len sequence that contains no token of entity2 and not
\* replacement token B; when it begins earlier, its first token is kept.
C13_Entity2Chopped ==
    (options.task_name = "RE" /\ pc # "tokenized" /\ Len(REEntity2) > 0) =>
        /\ Returned
        /\ Len(tids) = SeqLen
        /\ Entity2Start >= SeqLen - 1 => Entity2Absent
        /\ Entity2Start < SeqLen - 1 => tokens[Entity2Start + 1] = REEntity2[1]

\* Entities far apart (6 tokens between them) and sent_start cut at its
\* head: the encoder returned 8 ids and none is of entity2
C13_Witness ==
    /\ RE
    /\ SeqLen = 8
    /\ LenOf(1) = 4 /\ LenOf(2) = 2 /\ LenOf(3) = 6 /\ LenOf(4) = 2
    /\ options.replace_span_A = None /\ options.replace_span_B = None
    /\ REBefore > (SeqLen \div 2) - 1
    /\ Len(tids) = 8
    /\ Entity2Absent
    /\ tokens[7] = <<"between", 4>>

=============================================================================
